---- MODULE Spec2Model ----
(***************************************************************************)
(* Model of plecost_lib/libs/wordpress_core/__init__.py:                   *)
(*   is_remote_a_wordpress, get_wordpress_version and                      *)
(*   get_wordpress_vulnerabilities.                                        *)
(* Strings are sequences of one-character strings; Python's None is the    *)
(* one-element sequence None, which no string equals.                      *)
(***************************************************************************)
EXTENDS Integers, Sequences, FiniteSets, TLC

\* ------------------------------------------------------------------------
\* Bounds
\* ------------------------------------------------------------------------
MaxWords == 20
MaxBody == 4
MaxReadme == 6
MaxRows == 3

\* ------------------------------------------------------------------------
\* Values
\* ------------------------------------------------------------------------
None == <<"None">>
Unknown == <<"u", "n", "k", "n", "o", "w", "n">>
EmptyStr == <<>>

\* Statuses a downloader can hand back; 0 is the transport-failure sentinel.
Statuses == {0, 200, 301, 302, 404}

\* get_diff_ratio results, in hundredths.
Ratios == {0, 34, 35, 100}

\* Wordlist entries: with and without a leading slash.
WordlistEntries == {<<"/", "a">>, <<"b">>}

\* Markers a Location header value may contain.
LoginMarker == "wp-login.php?redirect_to="
AdminMarker == "/wp-admin/"
Locations == SUBSET {LoginMarker, AdminMarker}

NoHeaders == [k \in {} |-> {}]
HeaderSets == {NoHeaders} \cup {[k \in {"location"} |-> l] : l \in Locations}

VARIABLES
    nwords,            \* length of get_wordlist("wordpress_detection.txt")
    total_urls,        \* is_remote_a_wordpress: total_urls
    urls_found,        \* is_remote_a_wordpress: urls_found
    status,            \* is_remote_a_wordpress: status of the last fetch
    ratio,             \* is_remote_a_wordpress: ratio of the last 200 probe
    headers,           \* is_remote_a_wordpress: headers of the /wp-admin/ fetch
                       \* (those of the sweep fetches are never read)
    d_url,             \* URL handed to downloader by the last fetch
    probe_fetches,     \* number of sweep fetches issued
    tiebreak_fetches,  \* number of fetches of /wp-admin/ issued after the sweep
    d_pc,              \* "sweep", "done"
    d_result           \* "pending", "True", "False", "ZeroDivisionError"

dvars == <<nwords, total_urls, urls_found, status, ratio, headers, d_url,
           probe_fetches, tiebreak_fetches, d_pc, d_result>>

VARIABLES
    curr_ver,                 \* get_wordpress_version: curr_ver
    cur_ver_2,                \* get_wordpress_version: cur_ver_2
    return_current_version,   \* get_wordpress_version: return_current_version
    tmp_version,              \* group(2) of the last fallback search, or None
    fb,                       \* per endpoint: "untried", "nomatch" (no body or
                              \* no match), "match"
    last_body_absent,         \* last_version_content is None
    last_version,             \* get_wordpress_version: last_version
    v_log,                    \* the fetches issued so far
    v_pc,                     \* "readme", "base", "fallback", "last", "done"
    v_result                  \* the PlecostWordPressInfo returned, or None

vvars == <<curr_ver, cur_ver_2, return_current_version, tmp_version, fb,
           last_body_absent, last_version, v_log, v_pc, v_result>>

VARIABLES
    info_ok,         \* isinstance(wordpress_info, PlecostWordPressInfo)
    db_ok,           \* isinstance(db, DB)
    r_cv,            \* wordpress_info.current_version
    cv_is_literal,   \* that string is the very object of the literal "unknown"
    db_rows,         \* what db.query_wordpress returns for it
    color,           \* whether colorize adds colour codes
    db_queries,      \* number of calls of db.query_wordpress
    r_raised,        \* "none" or "TypeError"
    r_out,           \* the string returned, None before the return
    r_pc             \* "call", "done"

rvars == <<info_ok, db_ok, r_cv, cv_is_literal, db_rows, color, db_queries,
           r_raised, r_out, r_pc>>

vars == <<dvars, vvars, rvars>>

\* ------------------------------------------------------------------------
\* is_remote_a_wordpress
\* ------------------------------------------------------------------------

\* path = url[1:] if url.startswith("/") else url
FixPath(url) ==
    IF Len(url) > 0 /\ url[1] = "/" THEN Tail(url) ELSE url

\* urljoin(base_url, path), base_url being the site's root: the base followed
\* by the path.
UrlJoin(base, path) == <<base>> \o path

\* headers.get(key, default)
HeadersGet(h, key, default) ==
    IF key \in DOMAIN h THEN h[key] ELSE default

\* status == 200 and get_diff_ratio(content, error_page) < 0.35
ProbeMatchedLoose(st, r) == st = 200 /\ r <= 35
ProbeMatched(st, r) == st = 200 /\ r < 35

\* (urls_found / float(total_urls)) < 0.85, for total_urls > 0
HitRateBelowStrict(found, total) == 100 * found <= 85 * total
HitRateBelow(found, total) == 100 * found < 85 * total

\* The if/elif chain on the /wp-admin/ response.
TieBreakAnyRedirect(st, h) ==
    \/ st = 302
    \/ st = 301 /\ AdminMarker \in HeadersGet(h, "location", {})
    \/ st = 200
TieBreak(st, h) ==
    IF st = 302 /\ LoginMarker \in HeadersGet(h, "location", {}) THEN TRUE
    ELSE IF st = 301 /\ AdminMarker \in HeadersGet(h, "location", {}) THEN TRUE
    ELSE IF st = 200 THEN TRUE
    ELSE FALSE

\* Division by float(total_urls) raises when the wordlist was empty.
DivideRaisesNever(total) == FALSE
DivideRaises(total) == total = 0

DInit ==
    /\ nwords \in 0..MaxWords
    /\ total_urls = 0
    /\ urls_found = 0
    /\ status = 0
    /\ ratio = 100
    /\ headers = NoHeaders
    /\ d_url = <<>>
    /\ probe_fetches = 0
    /\ tiebreak_fetches = 0
    /\ d_pc = "sweep"
    /\ d_result = "pending"

\* One iteration of the for loop: fetch one wordlist entry and classify it.
Probe ==
    /\ d_pc = "sweep"
    /\ total_urls < nwords
    /\ \E url \in WordlistEntries, st \in Statuses, r \in Ratios :
        /\ total_urls' = total_urls + 1
        /\ d_url' = UrlJoin("base_url", FixPath(url))
        /\ probe_fetches' = probe_fetches + 1
        /\ status' = st
        /\ ratio' = IF st = 200 THEN r ELSE ratio
        /\ urls_found' = IF ProbeMatched(st, r) THEN urls_found + 1 ELSE urls_found
    /\ UNCHANGED <<nwords, headers, tiebreak_fetches, d_pc, d_result>>
    /\ UNCHANGED <<vvars, rvars>>

\* The loop is exhausted and the hit rate cannot be computed.
DecideEmpty ==
    /\ d_pc = "sweep"
    /\ total_urls = nwords
    /\ DivideRaises(total_urls)
    /\ d_pc' = "done"
    /\ d_result' = "ZeroDivisionError"
    /\ UNCHANGED <<nwords, total_urls, urls_found, status, ratio, headers,
                   d_url, probe_fetches, tiebreak_fetches>>
    /\ UNCHANGED <<vvars, rvars>>

\* The loop is exhausted and the sweep alone is conclusive.
DecideHigh ==
    /\ d_pc = "sweep"
    /\ total_urls = nwords
    /\ ~DivideRaises(total_urls)
    /\ ~HitRateBelow(urls_found, total_urls)
    /\ d_pc' = "done"
    /\ d_result' = "True"
    /\ UNCHANGED <<nwords, total_urls, urls_found, status, ratio, headers,
                   d_url, probe_fetches, tiebreak_fetches>>
    /\ UNCHANGED <<vvars, rvars>>

\* The loop is exhausted, the sweep is inconclusive: fetch /wp-admin/.
DecideTieBreak ==
    /\ d_pc = "sweep"
    /\ total_urls = nwords
    /\ ~DivideRaises(total_urls)
    /\ HitRateBelow(urls_found, total_urls)
    /\ \E st \in Statuses, h \in HeaderSets :
        /\ status' = st
        /\ headers' = h
        /\ d_result' = IF TieBreak(st, h) THEN "True" ELSE "False"
    /\ d_url' = UrlJoin("base_url", <<"/", "w", "p", "-", "a", "d", "m", "i", "n", "/">>)
    /\ tiebreak_fetches' = tiebreak_fetches + 1
    /\ d_pc' = "done"
    /\ UNCHANGED <<nwords, total_urls, urls_found, ratio, probe_fetches>>
    /\ UNCHANGED <<vvars, rvars>>

\* ------------------------------------------------------------------------
\* get_wordpress_version
\* ------------------------------------------------------------------------

Digits == {"4"}
VerChars == Digits \cup {"."}

\* The text matched by group 1 of each pattern, as one character.
ReadmePrefix == "<br/>Version "
MetaPrefix == "<meta name=\"generator\" content=\"WordPress "
LoginPrefix == ";ver="
CssPrefix == "Version "
LastPrefix == "WordPress&nbsp;"

\* url_version
Endpoints == {"wp-login.php", "wp-admin/css/wp-admin-rtl.css", "wp-admin/css/wp-admin.css"}
EndpointPrefix(e) == IF e = "wp-login.php" THEN LoginPrefix ELSE CssPrefix

\* Response bodies: None on a failed fetch, else a short text in which the
\* pattern's prefix may occur.
Texts(prefix, max) ==
    UNION {[1..n -> VerChars \cup {"x", prefix}] : n \in 0..max}
Bodies(prefix, max) == {None} \cup Texts(prefix, max)

\* Index one past the longest run of characters of S in s that starts at i.
RECURSIVE RunEnd(_, _, _)
RunEnd(s, i, S) ==
    IF i > Len(s) \/ s[i] \notin S THEN i ELSE RunEnd(s, i + 1, S)

Min(S) == CHOOSE m \in S : \A n \in S : m <= n

\* re.search(r"(prefix)([\d]\.[\d]\.*[\d]*)", s): group(2) of the leftmost
\* match, None when there is none.
SearchReadme(s) ==
    LET starts == {i \in 1..Len(s) :
                     /\ s[i] = ReadmePrefix
                     /\ i + 3 <= Len(s)
                     /\ s[i + 1] \in Digits
                     /\ s[i + 2] = "."
                     /\ s[i + 3] \in Digits}
    IN  IF starts = {} THEN None
        ELSE LET i == Min(starts)
                 e == RunEnd(s, RunEnd(s, i + 4, {"."}), Digits)
             IN  SubSeq(s, i + 1, e - 1)

\* re.search(r"(prefix)([0-9\.]+)", s): group(2) of the leftmost match.
SearchPlus(prefix, s) ==
    LET starts == {i \in 1..Len(s) :
                     s[i] = prefix /\ i + 1 <= Len(s) /\ s[i + 1] \in VerChars}
    IN  IF starts = {} THEN None
        ELSE LET i == Min(starts)
             IN  SubSeq(s, i + 1, RunEnd(s, i + 1, VerChars) - 1)

\* re.search(r"(prefix)([0-9\.]*)", s): group(2) may be the empty string.
SearchStar(prefix, s) ==
    LET starts == {i \in 1..Len(s) : s[i] = prefix}
    IN  IF starts = {} THEN None
        ELSE LET i == Min(starts)
             IN  SubSeq(s, i + 1, RunEnd(s, i + 1, VerChars) - 1)

\* str(last_version_content)
Str(c) == IF c = None THEN <<"N", "o", "n", "e">> ELSE c

\* Lines 119-128: signal A from the readme body.
SignalA(content) == IF content # None THEN SearchReadme(content) ELSE None

\* Lines 137-145: signal B from the page of the base URL.
SignalB(content) == IF content # None THEN SearchPlus(MetaPrefix, content) ELSE None

\* Lines 150-163: match the versions of the two methods.
ReconcilePreferReadme(a, b) ==
    IF a = None /\ b = None THEN Unknown
    ELSE IF a = None THEN b
    ELSE a
Reconcile(a, b) ==
    IF a = None /\ b = None THEN Unknown
    ELSE IF a = None /\ b # None THEN b
    ELSE IF a # None /\ b = None THEN a
    ELSE IF a # None /\ b # None THEN (IF a # b THEN b ELSE a)
    ELSE Unknown

\* Line 166: if return_current_version == "unknown"
NeedsFallbackAlways(cur) == TRUE
NeedsFallback(cur) == cur = Unknown

\* Lines 187-194: the advertised latest release.
LastVersion(content) ==
    LET m == SearchStar(LastPrefix, Str(content))
    IN  IF m = None THEN Unknown ELSE m

Fetch(via, url, redirect) == [via |-> via, url |-> url, auto_redirect |-> redirect]

VInit ==
    /\ curr_ver = None
    /\ cur_ver_2 = None
    /\ return_current_version = Unknown
    /\ tmp_version = None
    /\ fb = [e \in Endpoints |-> "untried"]
    /\ last_body_absent = FALSE
    /\ last_version = None
    /\ v_log = {}
    /\ v_pc = "readme"
    /\ v_result = None

\* Line 116-128: fetch /readme.html through downloader, extract signal A.
FetchReadme ==
    /\ v_pc = "readme"
    /\ \E content \in Bodies(ReadmePrefix, MaxReadme) :
        curr_ver' = SignalA(content)
    /\ v_log' = v_log \cup {Fetch("downloader", "/readme.html", TRUE)}
    /\ v_pc' = "base"
    /\ UNCHANGED <<cur_ver_2, return_current_version, tmp_version, fb,
                   last_body_absent, last_version, v_result>>
    /\ UNCHANGED <<dvars, rvars>>

\* Lines 133-166: fetch the base URL through downloader, extract signal B,
\* reconcile, and decide whether the fallback sweep runs.
FetchBase ==
    /\ v_pc = "base"
    /\ \E content \in Bodies(MetaPrefix, MaxBody) :
        LET b == SignalB(content)
            cur == Reconcile(curr_ver, b)
        IN  /\ cur_ver_2' = b
            /\ return_current_version' = cur
            /\ v_pc' = IF NeedsFallback(cur) THEN "fallback" ELSE "last"
    /\ v_log' = v_log \cup {Fetch("downloader", "url", TRUE)}
    /\ UNCHANGED <<curr_ver, tmp_version, fb, last_body_absent, last_version,
                   v_result>>
    /\ UNCHANGED <<dvars, rvars>>

\* Lines 167-178: one iteration of the loop over url_version.items(), whose
\* order the dictionary decides; the fetch goes through the module-level
\* download with auto_redirect=False.
FetchFallback ==
    /\ v_pc = "fallback"
    /\ \E e \in {x \in Endpoints : fb[x] = "untried"} :
        \E content \in Bodies(EndpointPrefix(e), MaxBody) :
            LET m == IF content # None THEN SearchPlus(EndpointPrefix(e), content)
                     ELSE None
                out == IF m = None THEN "nomatch" ELSE "match"
                fb2 == [fb EXCEPT ![e] = out]
            IN  /\ fb' = fb2
                /\ tmp_version' = m
                /\ return_current_version' =
                       IF m # None THEN m ELSE return_current_version
                /\ v_pc' = IF m # None \/ \A x \in Endpoints : fb2[x] # "untried"
                           THEN "last" ELSE "fallback"
                /\ v_log' = v_log \cup {Fetch("download", e, FALSE)}
    /\ UNCHANGED <<curr_ver, cur_ver_2, last_body_absent, last_version, v_result>>
    /\ UNCHANGED <<dvars, rvars>>

\* Lines 185-197: fetch the download page through downloader, extract the
\* latest release, build the result.
FetchLast ==
    /\ v_pc = "last"
    /\ \E content \in Bodies(LastPrefix, MaxBody) :
        LET last == LastVersion(content)
        IN  /\ last_body_absent' = (content = None)
            /\ last_version' = last
            /\ v_result' = [current_version |-> return_current_version,
                            last_version |-> last]
    /\ v_log' = v_log \cup {Fetch("downloader", "https://wordpress.org/download/", TRUE)}
    /\ v_pc' = "done"
    /\ UNCHANGED <<curr_ver, cur_ver_2, return_current_version, tmp_version, fb>>
    /\ UNCHANGED <<dvars, rvars>>

\* ------------------------------------------------------------------------
\* get_wordpress_vulnerabilities
\* ------------------------------------------------------------------------

CveIds == {"CVE-2017-0001", "CVE-2017-0002"}
Versions == {Unknown, EmptyStr, <<"4", ".", "7">>, <<"4", ".", "8">>}
RowSeqs == UNION {[1..n -> CveIds] : n \in 0..MaxRows}

NL == "\n"
HeaderText == "    |_CVE list:"
RecordPrefix == "    |__"
UrlPrefix == ": (http://cve.mitre.org/cgi-bin/cvename.cgi?name="
UrlSuffix == ")"

\* utils.colorize(text, "red")
Colorize(text, on) == IF on THEN <<"ESC[31m", text, "ESC[0m">> ELSE <<text>>

\* "\n".join(res)
RECURSIVE Join(_)
Join(res) ==
    IF res = <<>> THEN <<>>
    ELSE IF Len(res) = 1 THEN res[1]
    ELSE res[1] \o <<NL>> \o Join(Tail(res))

\* Lines 231-232: the text of one record.
CveText(cve, on) ==
    <<RecordPrefix>> \o Colorize(cve, on) \o <<UrlPrefix>> \o Colorize(cve, on)
        \o <<UrlSuffix>>

\* Lines 226-234: the list res.
CveListDropLast(cves, on) ==
    IF cves # <<>>
    THEN <<<<NL, HeaderText>>>> \o [i \in 1..(Len(cves) - 1) |-> CveText(cves[i], on)]
    ELSE <<>>
CveList(cves, on) ==
    IF cves # <<>>
    THEN <<<<NL, HeaderText>>>> \o [i \in 1..Len(cves) |-> CveText(cves[i], on)]
    ELSE <<>>

\* Lines 219-220: _current_version is "unknown" or not _current_version.
\* `is` compares object identity: a string equal to "unknown" that is not the
\* interned literal does not pass.
Unresolved(cv, literal) == (cv = Unknown /\ literal) \/ cv = EmptyStr

RInit ==
    /\ info_ok \in BOOLEAN
    /\ db_ok \in BOOLEAN
    /\ r_cv \in Versions
    /\ cv_is_literal \in BOOLEAN
    /\ cv_is_literal => r_cv = Unknown
    /\ db_rows \in RowSeqs
    /\ color \in BOOLEAN
    /\ db_queries = 0
    /\ r_raised = "none"
    /\ r_out = None
    /\ r_pc = "call"

\* Lines 212-215: a handle of the wrong type.
ReportTypeError ==
    /\ r_pc = "call"
    /\ ~info_ok \/ ~db_ok
    /\ r_raised' = "TypeError"
    /\ r_pc' = "done"
    /\ UNCHANGED <<info_ok, db_ok, r_cv, cv_is_literal, db_rows, color,
                   db_queries, r_out>>
    /\ UNCHANGED <<dvars, vvars>>

\* Lines 217-221: nothing to look up.
ReportUnresolved ==
    /\ r_pc = "call"
    /\ info_ok /\ db_ok
    /\ Unresolved(r_cv, cv_is_literal)
    /\ r_out' = Join(<<>>)
    /\ r_pc' = "done"
    /\ UNCHANGED <<info_ok, db_ok, r_cv, cv_is_literal, db_rows, color,
                   db_queries, r_raised>>
    /\ UNCHANGED <<dvars, vvars>>

\* Lines 223-236: query the database and render the list.
ReportQuery ==
    /\ r_pc = "call"
    /\ info_ok /\ db_ok
    /\ ~Unresolved(r_cv, cv_is_literal)
    /\ db_queries' = db_queries + 1
    /\ r_out' = Join(CveList(db_rows, color))
    /\ r_pc' = "done"
    /\ UNCHANGED <<info_ok, db_ok, r_cv, cv_is_literal, db_rows, color, r_raised>>
    /\ UNCHANGED <<dvars, vvars>>

\* ------------------------------------------------------------------------
\* Specifications: one call of each function.
\* ------------------------------------------------------------------------

DIdle ==
    /\ nwords = 0 /\ total_urls = 0 /\ urls_found = 0 /\ status = 0
    /\ ratio = 100 /\ headers = NoHeaders /\ d_url = <<>>
    /\ probe_fetches = 0 /\ tiebreak_fetches = 0
    /\ d_pc = "idle" /\ d_result = "pending"

VIdle ==
    /\ curr_ver = None /\ cur_ver_2 = None /\ return_current_version = Unknown
    /\ tmp_version = None /\ fb = [e \in Endpoints |-> "untried"]
    /\ last_body_absent = FALSE /\ last_version = None /\ v_log = {}
    /\ v_pc = "idle" /\ v_result = None

RIdle ==
    /\ info_ok = TRUE /\ db_ok = TRUE /\ r_cv = Unknown /\ cv_is_literal = TRUE
    /\ db_rows = <<>> /\ color = FALSE /\ db_queries = 0 /\ r_raised = "none"
    /\ r_out = None /\ r_pc = "idle"

DetectInit == DInit /\ VIdle /\ RIdle
DNext == Probe \/ DecideEmpty \/ DecideHigh \/ DecideTieBreak
SpecDetect == DetectInit /\ [][DNext]_vars

VersionInit == DIdle /\ VInit /\ RIdle
VNext == FetchReadme \/ FetchBase \/ FetchFallback \/ FetchLast
SpecVersion == VersionInit /\ [][VNext]_vars

ReportInit == DIdle /\ VIdle /\ RInit
RNext == ReportTypeError \/ ReportUnresolved \/ ReportQuery
SpecReport == ReportInit /\ [][RNext]_vars

\* ------------------------------------------------------------------------
\* Properties of is_remote_a_wordpress (checked under SpecDetect)
\* ------------------------------------------------------------------------

C2_EmptyWordlistIsError ==
    (d_pc = "done" /\ total_urls = 0)
        => /\ d_result = "ZeroDivisionError"
           /\ d_result \notin {"True", "False"}
           /\ tiebreak_fetches = 0

C2_Witness == d_pc = "done" /\ nwords = 0 /\ total_urls = 0

\* C3: when the hit rate is below 0.85, exactly one fetch of /wp-admin/ is
\* issued and the result is read off its response alone: True for 302 with the
\* login marker in Location, for 301 with the admin marker in Location, and
\* for 200; False otherwise.
C3_TieBreakDecides ==
    (d_pc = "done" /\ total_urls > 0 /\ 100 * urls_found < 85 * total_urls)
        => /\ tiebreak_fetches = 1
           /\ d_result \in {"True", "False"}
           /\ d_result = "True" <=>
                \/ /\ status = 302
                   /\ "location" \in DOMAIN headers
                   /\ LoginMarker \in headers["location"]
                \/ /\ status = 301
                   /\ "location" \in DOMAIN headers
                   /\ AdminMarker \in headers["location"]
                \/ status = 200

C3_Witness ==
    /\ d_pc = "done" /\ tiebreak_fetches = 1
    /\ status = 302
    /\ "location" \in DOMAIN headers
    /\ headers["location"] = {AdminMarker}
    /\ d_result = "False"
    /\ urls_found > 0

\* C4: the counters start at 0 and after every step 0 <= urls_found <=
\* total_urls; each sweep fetch adds one to total_urls whatever its outcome and
\* adds one to urls_found exactly when its status is 200 and its ratio is below
\* 0.35; nothing else changes the counters; when the call ends total_urls is
\* the length of the wordlist.
C4_SweepCounters ==
    /\ total_urls = 0 /\ urls_found = 0
    /\ [][/\ 0 <= urls_found' /\ urls_found' <= total_urls'
          /\ probe_fetches' # probe_fetches =>
                /\ probe_fetches' = probe_fetches + 1
                /\ total_urls' = total_urls + 1
                /\ urls_found' = urls_found
                       + (IF status' = 200 /\ ratio' < 35 THEN 1 ELSE 0)
          /\ probe_fetches' = probe_fetches =>
                /\ total_urls' = total_urls
                /\ urls_found' = urls_found
          /\ d_pc' = "done" => total_urls' = nwords']_vars

C4_Witness ==
    /\ d_pc = "sweep" /\ total_urls = nwords /\ nwords >= 3
    /\ status = 0
    /\ urls_found >= 1 /\ urls_found < total_urls - 1

\* ------------------------------------------------------------------------
\* Properties of get_wordpress_version (checked under SpecVersion)
\* ------------------------------------------------------------------------

\* C5: the version reconciled from signal A (curr_ver) and signal B
\* (cur_ver_2), before any fallback, is "unknown" when both are None, the one
\* present when only one is, their common value when they agree and B when
\* they differ.
C5_Reconciliation ==
    [][(v_pc = "base" /\ v_pc' # "base") =>
          return_current_version' =
              CASE curr_ver' = None /\ cur_ver_2' = None -> Unknown
                [] curr_ver' # None /\ cur_ver_2' = None -> curr_ver'
                [] curr_ver' = None /\ cur_ver_2' # None -> cur_ver_2'
                [] OTHER -> cur_ver_2']_vars

C5_Witness ==
    /\ v_pc = "last"
    /\ curr_ver # None /\ cur_ver_2 # None /\ curr_ver # cur_ver_2
    /\ return_current_version = cur_ver_2

\* C6: a fallback endpoint is fetched only while the current version is
\* "unknown" (both signals None) and no earlier endpoint has matched; a match
\* becomes the current version; when no endpoint matches it stays "unknown";
\* every fallback fetch has redirects disabled.
C6_FallbackSweep ==
    [][/\ \A f \in v_log' : f.url \in Endpoints => f.auto_redirect = FALSE
       /\ (\E f \in v_log' \ v_log : f.url \in Endpoints) =>
             /\ curr_ver = None /\ cur_ver_2 = None
             /\ return_current_version = Unknown
             /\ \A e \in Endpoints : fb[e] # "match"
             /\ tmp_version' # None => return_current_version' = tmp_version'
             /\ tmp_version' = None => return_current_version' = Unknown
       /\ (v_pc' \in {"last", "done"} /\ \A e \in Endpoints : fb'[e] = "nomatch")
             => return_current_version' = Unknown]_vars

C6_Witness ==
    /\ v_pc = "last"
    /\ \E e1, e2, e3 \in Endpoints :
          fb[e1] = "nomatch" /\ fb[e2] = "match" /\ fb[e3] = "untried"
    /\ return_current_version = tmp_version
    /\ return_current_version # Unknown

\* A dotted numeric version: digits separated by single dots.
IsDotted(s) ==
    /\ Len(s) > 0
    /\ \A i \in 1..Len(s) : s[i] \in VerChars
    /\ s[1] \in Digits /\ s[Len(s)] \in Digits
    /\ \A i \in 1..(Len(s) - 1) : ~(s[i] = "." /\ s[i + 1] = ".")

\* C7: the result's current_version and last_version are each a dotted
\* numeric version or "unknown", and last_version is "unknown" when the fetch
\* of the download page failed.
C7_VersionShapes ==
    v_pc = "done" =>
        /\ v_result.current_version = Unknown \/ IsDotted(v_result.current_version)
        /\ v_result.last_version = Unknown \/ IsDotted(v_result.last_version)
        /\ last_body_absent => v_result.last_version = Unknown

\* C10: every fetch of the call goes through the downloader argument.
C10_AllFetchesThroughDownloader ==
    \A f \in v_log : f.via = "downloader"

\* ------------------------------------------------------------------------
\* Properties of get_wordpress_vulnerabilities (checked under SpecReport)
\* ------------------------------------------------------------------------

\* C8: when current_version is "unknown" or empty, the output is the empty
\* string and the database is not queried.
C8_UnresolvedNotQueried ==
    (r_pc = "done" /\ info_ok /\ db_ok /\ (r_cv = Unknown \/ r_cv = EmptyStr))
        => (r_out = EmptyStr /\ db_queries = 0)

\* The lines of a text: the pieces between its newlines.
RECURSIVE SplitLines(_)
SplitLines(t) ==
    IF \A i \in 1..Len(t) : t[i] # NL THEN <<t>>
    ELSE LET k == CHOOSE i \in 1..Len(t) :
                      t[i] = NL /\ \A j \in 1..(i - 1) : t[j] # NL
         IN  <<SubSeq(t, 1, k - 1)>> \o SplitLines(SubSeq(t, k + 1, Len(t)))

\* The identifiers that occur in a line, in order.
IdsIn(line) == SelectSeq(line, LAMBDA x : x \in CveIds)

====
